---- MODULE Spec2Model ----
(***************************************************************************)
(* Model of the VirtSquad controller                                       *)
(* (internal/controller/virtsquad_controller.go).                          *)
(*                                                                         *)
(* One reconciliation pass (Reconcile) is a sequence of blocking API calls *)
(* (Get, Update, List, Create, Delete, Status().Update).  Every API call   *)
(* is one atomic step of the model; the local computation between two      *)
(* calls belongs to the step of the call that precedes it.  The API        *)
(* server's objects (VirtSquad resources and pods) are the shared state;   *)
(* the end user and the cluster act on them between the steps of a pass.   *)
(***************************************************************************)
EXTENDS Integers, Sequences, FiniteSets, TLC

VARIABLES
    squad,      \* stored VirtSquad resources, by name
    pods,       \* stored pods of the namespace: a function from pod name to pod
    pass,       \* per VirtSquad name: the position and locals of its running (or last) pass
    budget      \* what the environment may still do (bounds of the model)

vars == <<squad, pods, pass, budget>>

----------------------------------------------------------------------------
(* Bounds of the model *)

MaxReplicas == 2    \* largest replica count the user writes
MaxEdits    == 1    \* spec edits by the user after creation
MaxFailures == 1    \* API calls the environment makes fail
MaxReady    == 1    \* pods whose Ready condition becomes true
MaxVanish   == 1    \* pods removed by somebody other than the controller
MaxCrashes  == 1    \* times the controller process dies in the middle of a pass
RepairReplicas == 3 \* replica count of the resource whose scale-up is repaired
RepairVanish   == 2 \* pods removed by somebody else from that resource

----------------------------------------------------------------------------
(* Fixed data *)

\* The four team members, in the order Reconcile handles them.
Groups == <<"oksana", "kurtis", "matt", "kike">>

GroupIds == 1..Len(Groups)

\* The members the user gives a spec to; the others stay nil in every spec.
EditGroups == {1, 2}

Squads == {"x", "y"}

BaseNames == {"a", "b"}

\* The replica counts the user writes: a negative one, zero and the largest;
\* a spec that leaves Replicas nil asks for the default, 1.
ReplicaCounts == {-1, 0, MaxReplicas}

\* A *TeamMemberSpec: present = the pointer is not nil; hasName / hasReplicas
\* = the Name / Replicas pointer is not nil.
NilSpec == [present |-> FALSE, hasName |-> FALSE, name |-> "",
            hasReplicas |-> FALSE, replicas |-> 0]

MemberSpecs ==
    {NilSpec}
    \cup {[present |-> TRUE, hasName |-> FALSE, name |-> "",
           hasReplicas |-> FALSE, replicas |-> 0]}
    \cup {[present |-> TRUE, hasName |-> TRUE, name |-> b,
           hasReplicas |-> FALSE, replicas |-> 0] : b \in BaseNames}
    \cup {[present |-> TRUE, hasName |-> TRUE, name |-> b,
           hasReplicas |-> TRUE, replicas |-> r] :
             b \in BaseNames, r \in ReplicaCounts}

EmptySpec == [g \in GroupIds |-> NilSpec]

UserSpecs ==
    {sp \in [GroupIds -> MemberSpecs] :
        \A g \in GroupIds \ EditGroups : sp[g] = NilSpec}

\* VirtSquadStatus{}: the zero value.
EmptyStatus == [pods |-> [g \in GroupIds |-> <<>>], total |-> 0, ready |-> 0]

\* No stored object of that name.  finalizer: the resource carries the
\* controller's finalizer; held: it carries a finalizer of somebody else.
Gone == [exists |-> FALSE, deleting |-> FALSE, finalizer |-> FALSE, held |-> FALSE,
         spec |-> EmptySpec, status |-> EmptyStatus]

\* The object a pass holds, as r.Get returned it.
NoObj == [deleting |-> FALSE, finalizer |-> FALSE, spec |-> EmptySpec]

\* The pass before did not end on a failed create that followed a successful one.
NoRetry == [g |-> 0, name |-> <<>>]

IdlePass ==
    [pc |-> "idle", obj |-> NoObj, stale |-> FALSE, g |-> 0, items |-> <<>>,
     i |-> 0, status |-> EmptyStatus,
     \* history of the pass, kept until the next pass starts
     fetched |-> FALSE, result |-> "none", errAt |-> "", calls |-> <<>>, wrote |-> FALSE,
     markerAdded |-> FALSE, readyErr |-> FALSE, status0 |-> EmptyStatus,
     clean |-> FALSE, second |-> FALSE,
     \* touched: the user or the cluster has acted since the pass started;
     \* retry: the create on which the pass before ended, if that pass created
     \* a pod of the same member first and nobody else has acted since it started
     touched |-> FALSE, retry |-> NoRetry]

----------------------------------------------------------------------------
(* Helpers *)

Min(a, b) == IF a < b THEN a ELSE b

Range(q) == {q[k] : k \in 1..Len(q)}

\* The orders in which a list call may return the set S.
ListOrders(S) ==
    {q \in [1..Cardinality(S) -> S] : \A j, k \in 1..Cardinality(S) : q[j] = q[k] => j = k}

\* fmt.Sprintf("%s-%d", podBaseName, replica): injective in (base, replica),
\* the ordinal being the digits after the last dash.
PodName(base, replica) == <<base, replica>>

\* Faulty variant of MemberPods: the selector lacks the member label.
MemberPodsOfAnyMember(s, g) == {n \in DOMAIN pods : pods[n].squad = s}

\* The pods a list with labels app, member and squad selects.
MemberPods(s, g) ==
    {n \in DOMAIN pods : pods[n].squad = s /\ pods[n].member = Groups[g]}

\* The pods a list with labels app and squad selects.
SquadPods(s) == {n \in DOMAIN pods : pods[n].squad = s}

isPodReady(n) == pods[n].ready

RECURSIVE SumLen(_, _)
SumLen(f, k) == IF k = 0 THEN 0 ELSE Len(f[k]) + SumLen(f, k - 1)

\* desiredReplicas of reconcileTeamMember.
DesiredReplicas(ms) == IF ms.hasReplicas THEN ms.replicas ELSE 1

\* memberSpec == nil || memberSpec.Name == nil
Unspecified(ms) == ~ms.present \/ ~ms.hasName

----------------------------------------------------------------------------
(* The pass: Reconcile and the functions it calls *)

\* An API call on pods as the history of the pass records it: the member whose
\* reconciliation issued it (0: none), the pod named, the member label of the
\* pod created or deleted, and whether the call succeeded.
Call(op, g, name, member, ok) ==
    [op |-> op, g |-> g, name |-> name, member |-> member, ok |-> ok]

ListCall(g, ok) == Call("list", g, <<>>, "", ok)

\* The create on which the pass p ended after it had created a pod of the
\* same member, if it ended so and nobody else acted meanwhile.
PartialScaleUp(p) ==
    LET n    == Len(p.calls)
        last == p.calls[n]
    IN  IF /\ p.result = "err"
           /\ ~p.touched
           /\ n > 0
           /\ last.op = "create"
           /\ ~last.ok
           /\ \E k \in 1..(n - 1) :
                 p.calls[k].op = "create" /\ p.calls[k].g = last.g /\ p.calls[k].ok
        THEN [g |-> last.g, name |-> last.name]
        ELSE NoRetry

\* A pass starts: the locals and the history of the previous pass are dropped.
NewPass(s) ==
    [IdlePass EXCEPT !.clean = TRUE, !.second = pass[s].clean,
                     !.retry = PartialScaleUp(pass[s])]

\* return ctrl.Result{}, err
ReturnErr(p, at) == [p EXCEPT !.pc = "idle", !.result = "err", !.errAt = at]

\* return ctrl.Result{}, nil
ReturnOk(p) == [p EXCEPT !.pc = "idle", !.result = "ok"]

\* The environment makes the API call at hand fail (a transient server error).
InjectFailure(s, p, at) ==
    /\ budget.failures > 0
    /\ budget' = [budget EXCEPT !.failures = @ - 1]
    /\ pass' = [pass EXCEPT ![s] = [ReturnErr(p, at) EXCEPT !.clean = FALSE]]

\* The end of reconcileTeamMember / deleteTeamMemberPods for member p.g:
\* *statusPods is set, and Reconcile goes on to the next member or to the status.
AfterMember(p, names) ==
    LET q == [p EXCEPT !.status.pods[p.g] = names, !.items = <<>>, !.i = 0]
    IN  IF p.g < Len(Groups)
        THEN [q EXCEPT !.pc = "member", !.g = p.g + 1]
        ELSE [q EXCEPT !.pc = "countReady", !.g = 0]

\* Faulty variant of Get: only a deleting resource that has the finalizer ends
\* the pass; one without it is reconciled like any other.
GetReconcilesDeleted(s) ==
    /\ pass[s].pc = "idle"
    /\ UNCHANGED <<squad, pods, budget>>
    /\ LET r == squad[s]
           p == [NewPass(s) EXCEPT
                   !.fetched = TRUE,
                   !.obj = [deleting |-> r.deleting, finalizer |-> r.finalizer,
                            spec |-> r.spec],
                   !.status0 = r.status]
       IN  pass' = [pass EXCEPT ![s] =
              IF ~r.exists THEN ReturnOk(NewPass(s))
              ELSE IF r.deleting /\ r.finalizer THEN [p EXCEPT !.pc = "finalizeList"]
              ELSE IF ~r.finalizer THEN [p EXCEPT !.pc = "addFinalizer"]
              ELSE [p EXCEPT !.pc = "member", !.g = 1]]

\* r.Get and the branches of Reconcile up to the first call that follows.
Get(s) ==
    /\ pass[s].pc = "idle"
    /\ \/ InjectFailure(s, NewPass(s), "get") /\ UNCHANGED <<squad, pods>>
       \/ /\ UNCHANGED <<squad, pods, budget>>
          /\ LET r == squad[s]
                 p == [NewPass(s) EXCEPT
                         !.fetched = TRUE,
                         !.obj = [deleting |-> r.deleting, finalizer |-> r.finalizer,
                                  spec |-> r.spec],
                         !.status0 = r.status]
             IN  pass' = [pass EXCEPT ![s] =
                    IF ~r.exists THEN ReturnOk(NewPass(s))
                    ELSE IF r.deleting
                         THEN IF r.finalizer THEN [p EXCEPT !.pc = "finalizeList"]
                              ELSE ReturnOk(p)
                    ELSE IF ~r.finalizer THEN [p EXCEPT !.pc = "addFinalizer"]
                    ELSE [p EXCEPT !.pc = "member", !.g = 1]]

\* Faulty variant of UpdateRefused: the update does not carry the version the
\* pass read, so that it overwrites what was written since.
UpdateRefusedWhenGone(s) == ~squad[s].exists

\* r.Update: refused when the object was written since it was read (Conflict)
\* or is gone (NotFound).
UpdateRefused(s) == pass[s].stale \/ ~squad[s].exists

\* Faulty variant of AddFinalizerOk: the pass returns once the finalizer is stored.
AddFinalizerThenStop(s) ==
    /\ squad' = [squad EXCEPT ![s].finalizer = TRUE]
    /\ pass' = [pass EXCEPT ![s] = [ReturnOk(pass[s]) EXCEPT !.markerAdded = TRUE]]

\* controllerutil.AddFinalizer, r.Update, and on success on to the members.
AddFinalizerOk(s) ==
    /\ squad' = [squad EXCEPT ![s].finalizer = TRUE]
    /\ pass' = [pass EXCEPT ![s] =
                  [pass[s] EXCEPT !.pc = "member", !.g = 1, !.markerAdded = TRUE]]

\* Faulty variant of AddFinalizer: the error of r.Update is dropped and the
\* pass goes on to the members.
AddFinalizerErrorDropped(s) ==
    /\ pass[s].pc = "addFinalizer"
    /\ \/ InjectFailure(s, pass[s], "addFinalizer") /\ UNCHANGED <<squad, pods>>
       \/ /\ UNCHANGED <<pods, budget>>
          /\ IF UpdateRefused(s)
             THEN /\ pass' = [pass EXCEPT ![s] = [pass[s] EXCEPT !.pc = "member", !.g = 1]]
                  /\ UNCHANGED squad
             ELSE AddFinalizerOk(s)

\* The finalizer is added when missing: AddFinalizer, r.Update, return on error.
AddFinalizer(s) ==
    /\ pass[s].pc = "addFinalizer"
    /\ \/ InjectFailure(s, pass[s], "addFinalizer") /\ UNCHANGED <<squad, pods>>
       \/ /\ UNCHANGED <<pods, budget>>
          /\ IF UpdateRefused(s)
             THEN /\ pass' = [pass EXCEPT ![s] = ReturnErr(pass[s], "addFinalizer")]
                  /\ UNCHANGED squad
             ELSE AddFinalizerOk(s)

\* What follows the list of reconcileTeamMember: the scale-up loop, the
\* scale-down loop, or the status of the member.
AfterList(p, items) ==
    LET ms      == p.obj.spec[p.g]
        desired == DesiredReplicas(ms)
        current == Len(items)
        q       == [p EXCEPT !.items = items]
    IN  IF current < desired THEN [q EXCEPT !.pc = "create", !.i = current]
        ELSE IF current > desired /\ Min(current - desired, Len(items)) > 0
             THEN [q EXCEPT !.pc = "delete", !.i = 0]
        ELSE AfterMember(q, items)

\* Faulty variant of AfterListForDeletion: the status of the member is cleared
\* and the listed pods are left alone.
AfterListForDeletionKeepsPods(p, items) == AfterMember(p, <<>>)

\* What follows the list of deleteTeamMemberPods.
AfterListForDeletion(p, items) ==
    IF items = <<>> THEN AfterMember(p, <<>>)
    ELSE [p EXCEPT !.items = items, !.pc = "teardown", !.i = 0]

\* Faulty variant of MemberListError: the failed list is logged and the member
\* is taken to have no pods.
MemberListErrorIgnored(s) ==
    /\ budget.failures > 0
    /\ budget' = [budget EXCEPT !.failures = @ - 1]
    /\ pass' = [pass EXCEPT ![s] =
          AfterMember([pass[s] EXCEPT !.clean = FALSE,
                                      !.calls = Append(@, ListCall(pass[s].g, FALSE))],
                      <<>>)]

\* The r.List of reconcileTeamMember or of deleteTeamMemberPods failed.
MemberListError(s) ==
    InjectFailure(s, [pass[s] EXCEPT !.calls = Append(@, ListCall(pass[s].g, FALSE))],
                  "member")

\* reconcileTeamMember up to and including its list call (or that of
\* deleteTeamMemberPods for a member that is not specified).
ListMember(s) ==
    /\ pass[s].pc = "member"
    /\ UNCHANGED <<squad, pods>>
    /\ \/ MemberListError(s)
       \/ /\ UNCHANGED budget
          /\ \E items \in ListOrders(MemberPods(s, pass[s].g)) :
               LET p == [pass[s] EXCEPT !.calls = Append(@, ListCall(pass[s].g, TRUE))]
               IN  pass' = [pass EXCEPT ![s] =
                      IF Unspecified(p.obj.spec[p.g])
                      THEN AfterListForDeletion(p, items)
                      ELSE AfterList(p, items)]

\* The pod createPodForMember builds.
NewPod(s, g) == [member |-> Groups[g], squad |-> s, ready |-> FALSE]

\* createPodForMember for ordinal pass[s].i, inside the scale-up loop.
CreatePod(s) ==
    /\ pass[s].pc = "create"
    /\ UNCHANGED squad
    /\ LET p    == pass[s]
           ms   == p.obj.spec[p.g]
           name == PodName(ms.name, p.i)
           log(ok) == [p EXCEPT !.calls = Append(@, Call("create", p.g, name, Groups[p.g], ok))]
       IN  \/ InjectFailure(s, log(FALSE), "member") /\ UNCHANGED pods
           \/ /\ UNCHANGED budget
              /\ IF name \in DOMAIN pods
                 THEN \* AlreadyExists
                      /\ pass' = [pass EXCEPT ![s] = ReturnErr(log(FALSE), "member")]
                      /\ UNCHANGED pods
                 ELSE /\ pods' = [n \in DOMAIN pods \cup {name} |->
                                     IF n = name THEN NewPod(s, p.g) ELSE pods[n]]
                      /\ pass' = [pass EXCEPT ![s] =
                            IF p.i + 1 < DesiredReplicas(ms)
                            THEN [log(TRUE) EXCEPT !.i = p.i + 1]
                            ELSE AfterMember(log(TRUE), p.items)]

\* The member label of the stored pod of that name.
LabelOf(name) == IF name \in DOMAIN pods THEN pods[name].member ELSE ""

\* r.Delete of a listed pod: by namespace and name.
DeleteByName(name) == pods' = [n \in DOMAIN pods \ {name} |-> pods[n]]

\* Faulty variant of DeletePod: the loop runs while i <= podsToDelete.
DeletePodOneMore(s) ==
    /\ pass[s].pc = "delete"
    /\ UNCHANGED squad
    /\ LET p    == pass[s]
           ms   == p.obj.spec[p.g]
           podsToDelete == Len(p.items) - DesiredReplicas(ms)
           name == p.items[p.i + 1]
           log(ok) == [p EXCEPT !.calls = Append(@, Call("delete", p.g, name, LabelOf(name), ok))]
       IN  \/ InjectFailure(s, log(FALSE), "member") /\ UNCHANGED pods
           \/ /\ UNCHANGED budget
              /\ IF name \notin DOMAIN pods
                 THEN /\ pass' = [pass EXCEPT ![s] = ReturnErr(log(FALSE), "member")]
                      /\ UNCHANGED pods
                 ELSE /\ DeleteByName(name)
                      /\ pass' = [pass EXCEPT ![s] =
                            IF p.i + 1 <= podsToDelete /\ p.i + 1 < Len(p.items)
                            THEN [log(TRUE) EXCEPT !.i = p.i + 1]
                            ELSE AfterMember(log(TRUE), p.items)]

\* One iteration of the scale-down loop.
DeletePod(s) ==
    /\ pass[s].pc = "delete"
    /\ UNCHANGED squad
    /\ LET p    == pass[s]
           ms   == p.obj.spec[p.g]
           podsToDelete == Len(p.items) - DesiredReplicas(ms)
           name == p.items[p.i + 1]
           log(ok) == [p EXCEPT !.calls = Append(@, Call("delete", p.g, name, LabelOf(name), ok))]
       IN  \/ InjectFailure(s, log(FALSE), "member") /\ UNCHANGED pods
           \/ /\ UNCHANGED budget
              /\ IF name \notin DOMAIN pods
                 THEN \* NotFound
                      /\ pass' = [pass EXCEPT ![s] = ReturnErr(log(FALSE), "member")]
                      /\ UNCHANGED pods
                 ELSE /\ DeleteByName(name)
                      /\ pass' = [pass EXCEPT ![s] =
                            IF p.i + 1 < podsToDelete /\ p.i + 1 < Len(p.items)
                            THEN [log(TRUE) EXCEPT !.i = p.i + 1]
                            ELSE AfterMember(log(TRUE), p.items)]

\* One iteration of the loop of deleteTeamMemberPods.
TeardownPod(s) ==
    /\ pass[s].pc = "teardown"
    /\ UNCHANGED squad
    /\ LET p    == pass[s]
           name == p.items[p.i + 1]
           log(ok) == [p EXCEPT !.calls = Append(@, Call("delete", p.g, name, LabelOf(name), ok))]
       IN  \/ InjectFailure(s, log(FALSE), "member") /\ UNCHANGED pods
           \/ /\ UNCHANGED budget
              /\ IF name \notin DOMAIN pods
                 THEN /\ pass' = [pass EXCEPT ![s] = ReturnErr(log(FALSE), "member")]
                      /\ UNCHANGED pods
                 ELSE /\ DeleteByName(name)
                      /\ pass' = [pass EXCEPT ![s] =
                            IF p.i + 1 < Len(p.items)
                            THEN [log(TRUE) EXCEPT !.i = p.i + 1]
                            ELSE AfterMember(log(TRUE), <<>>)]

\* status.TotalPods
TotalPods(st) == SumLen(st.pods, Len(Groups))

\* The loop of countReadyPods over the listed pods.
ReadyCount(S) == Cardinality({n \in S : isPodReady(n)})

\* The list of countReadyPods failed: Reconcile logs the error and goes on.
CountReadyError(s) ==
    /\ budget.failures > 0
    /\ budget' = [budget EXCEPT !.failures = @ - 1]
    /\ pass' = [pass EXCEPT ![s] =
          [pass[s] EXCEPT !.status.total = TotalPods(pass[s].status),
                          !.pc = "updateStatus", !.readyErr = TRUE, !.clean = FALSE,
                          !.calls = Append(@, ListCall(0, FALSE))]]

\* status.TotalPods and countReadyPods.
CountReady(s) ==
    /\ pass[s].pc = "countReady"
    /\ UNCHANGED <<squad, pods>>
    /\ \/ CountReadyError(s)
       \/ /\ UNCHANGED budget
          /\ pass' = [pass EXCEPT ![s] =
                [pass[s] EXCEPT !.status.total = TotalPods(pass[s].status),
                                !.status.ready = ReadyCount(SquadPods(s)),
                                !.pc = "updateStatus",
                                !.calls = Append(@, ListCall(0, TRUE))]]

\* virtSquad.Status = *status; r.Status().Update
UpdateStatus(s) ==
    /\ pass[s].pc = "updateStatus"
    /\ UNCHANGED pods
    /\ \/ InjectFailure(s, pass[s], "updateStatus") /\ UNCHANGED squad
       \/ /\ UNCHANGED budget
          /\ IF UpdateRefused(s)
             THEN /\ pass' = [pass EXCEPT ![s] = ReturnErr(pass[s], "updateStatus")]
                  /\ UNCHANGED squad
             ELSE /\ squad' = [squad EXCEPT ![s].status = pass[s].status]
                  /\ pass' = [pass EXCEPT ![s] = [ReturnOk(pass[s]) EXCEPT !.wrote = TRUE]]

\* finalizeVirtSquad: its list call.
FinalizeList(s) ==
    /\ pass[s].pc = "finalizeList"
    /\ UNCHANGED <<squad, pods>>
    /\ \/ InjectFailure(s, [pass[s] EXCEPT !.calls = Append(@, ListCall(0, FALSE))],
                        "finalize")
       \/ /\ UNCHANGED budget
          /\ \E items \in ListOrders(SquadPods(s)) :
               pass' = [pass EXCEPT ![s] =
                  [pass[s] EXCEPT !.items = items, !.i = 0,
                                  !.calls = Append(@, ListCall(0, TRUE)),
                                  !.pc = IF items = <<>> THEN "removeFinalizer"
                                         ELSE "finalizeDelete"]]

\* Faulty variant of FinalizeMore: the loop leaves out the last listed pod.
FinalizeMoreButLast(p) == p.i + 2 < Len(p.items)

\* The delete loop of finalizeVirtSquad has a pod left after this iteration.
FinalizeMore(p) == p.i + 1 < Len(p.items)

\* finalizeVirtSquad: one iteration of its delete loop.
FinalizeDelete(s) ==
    /\ pass[s].pc = "finalizeDelete"
    /\ UNCHANGED squad
    /\ LET p    == pass[s]
           name == p.items[p.i + 1]
           log(ok) == [p EXCEPT !.calls = Append(@, Call("delete", 0, name, LabelOf(name), ok))]
       IN  \/ InjectFailure(s, log(FALSE), "finalize") /\ UNCHANGED pods
           \/ /\ UNCHANGED budget
              /\ IF name \notin DOMAIN pods
                 THEN /\ pass' = [pass EXCEPT ![s] = ReturnErr(log(FALSE), "finalize")]
                      /\ UNCHANGED pods
                 ELSE /\ DeleteByName(name)
                      /\ pass' = [pass EXCEPT ![s] =
                            IF FinalizeMore(p)
                            THEN [log(TRUE) EXCEPT !.i = p.i + 1]
                            ELSE [log(TRUE) EXCEPT !.pc = "removeFinalizer",
                                                   !.items = <<>>, !.i = 0]]

\* controllerutil.RemoveFinalizer and r.Update: with its last finalizer gone,
\* the API server removes the deleting object; with a finalizer of somebody
\* else left, the object stays.
RemoveFinalizer(s) ==
    /\ pass[s].pc = "removeFinalizer"
    /\ UNCHANGED pods
    /\ \/ InjectFailure(s, pass[s], "removeFinalizer") /\ UNCHANGED squad
       \/ /\ UNCHANGED budget
          /\ IF UpdateRefused(s)
             THEN /\ pass' = [pass EXCEPT ![s] = ReturnErr(pass[s], "removeFinalizer")]
                  /\ UNCHANGED squad
             ELSE /\ squad' = [squad EXCEPT ![s] =
                                  IF squad[s].held
                                  THEN [squad[s] EXCEPT !.finalizer = FALSE]
                                  ELSE Gone]
                  /\ pass' = [pass EXCEPT ![s] = ReturnOk(pass[s])]

Reconcile(s) ==
    \/ Get(s)
    \/ AddFinalizer(s)
    \/ ListMember(s)
    \/ CreatePod(s)
    \/ DeletePod(s)
    \/ TeardownPod(s)
    \/ CountReady(s)
    \/ UpdateStatus(s)
    \/ FinalizeList(s)
    \/ FinalizeDelete(s)
    \/ RemoveFinalizer(s)

----------------------------------------------------------------------------
(* The environment: the end user and the cluster *)

\* What a write by somebody else does to the running pass of s: its object
\* is out of date, and the pass no longer ran undisturbed.
Disturb(s, written) ==
    [pass EXCEPT ![s].clean = FALSE,
                 ![s].touched = TRUE,
                 ![s].stale = (@ \/ written) /\ pass[s].pc # "idle"]

\* The user changes the spec of one member.
EditSpec(s) ==
    /\ squad[s].exists
    /\ budget.edits > 0
    /\ \E g \in EditGroups, ms \in MemberSpecs :
          /\ ms # squad[s].spec[g]
          /\ squad' = [squad EXCEPT ![s].spec[g] = ms]
    /\ budget' = [budget EXCEPT !.edits = @ - 1]
    /\ pass' = Disturb(s, TRUE)
    /\ UNCHANGED pods

\* The user deletes the resource: the deletion timestamp is set, and an
\* object without any finalizer is removed at once.
UserDelete(s) ==
    /\ squad[s].exists
    /\ ~squad[s].deleting
    /\ squad' = [squad EXCEPT ![s] =
                    IF squad[s].finalizer \/ squad[s].held
                    THEN [squad[s] EXCEPT !.deleting = TRUE]
                    ELSE Gone]
    /\ pass' = Disturb(s, TRUE)
    /\ UNCHANGED <<pods, budget>>

\* Somebody else (another controller, foreground deletion) puts a finalizer
\* of their own on the resource.
Hold(s) ==
    /\ squad[s].exists
    /\ ~squad[s].held
    /\ squad' = [squad EXCEPT ![s].held = TRUE]
    /\ pass' = Disturb(s, TRUE)
    /\ UNCHANGED <<pods, budget>>

\* A pod's Ready condition becomes true.
MarkReady ==
    /\ budget.ready > 0
    /\ budget' = [budget EXCEPT !.ready = @ - 1]
    /\ \E n \in DOMAIN pods :
          /\ ~pods[n].ready
          /\ pods' = [pods EXCEPT ![n].ready = TRUE]
          /\ pass' = Disturb(pods[n].squad, FALSE)
    /\ UNCHANGED squad

\* A pod is removed by somebody other than the controller (the user, the node,
\* the garbage collector), as between the list and the delete of a pass.
Vanish ==
    /\ budget.vanish > 0
    /\ budget' = [budget EXCEPT !.vanish = @ - 1]
    /\ \E n \in DOMAIN pods :
          /\ pods' = [m \in DOMAIN pods \ {n} |-> pods[m]]
          /\ pass' = Disturb(pods[n].squad, FALSE)
    /\ UNCHANGED squad

\* The controller process dies in the middle of a pass: the pass is over with
\* whatever it has done so far, and the manager runs a new one later.
Crash(s) ==
    /\ pass[s].pc # "idle"
    /\ budget.crashes > 0
    /\ budget' = [budget EXCEPT !.crashes = @ - 1]
    /\ pass' = [pass EXCEPT ![s] = [ReturnErr(pass[s], "crash") EXCEPT !.clean = FALSE]]
    /\ UNCHANGED <<squad, pods>>

----------------------------------------------------------------------------
(* Specifications *)

NoPods == [n \in {} |-> NewPod("x", 1)]

\* The user has created VirtSquad x with one of the given specs; nothing has
\* been reconciled yet.
Created(specs, b) ==
    /\ \E sp \in specs :
          squad = [s \in Squads |->
                     IF s = "x"
                     THEN [exists |-> TRUE, deleting |-> FALSE, finalizer |-> FALSE,
                           held |-> FALSE, spec |-> sp, status |-> EmptyStatus]
                     ELSE Gone]
    /\ pods = NoPods
    /\ pass = [s \in Squads |-> IdlePass]
    /\ budget = b

\* The controller, a user who edits and deletes the resource, and API failures.
Init ==
    Created(UserSpecs,
            [edits |-> MaxEdits, failures |-> MaxFailures, ready |-> 0, vanish |-> 0, crashes |-> 0])

Next ==
    \/ Reconcile("x")
    \/ EditSpec("x")
    \/ UserDelete("x")

Spec == Init /\ [][Next]_vars

\* The specs that name oksana alone.
OneMemberSpecs == {sp \in UserSpecs : sp[2] = NilSpec}

\* The same for a resource created with a spec for oksana alone, with pods that
\* become ready.
InitReady ==
    Created(OneMemberSpecs,
            [edits |-> MaxEdits, failures |-> MaxFailures, ready |-> MaxReady,
             vanish |-> 0, crashes |-> 0])

NextReady ==
    \/ Next
    \/ MarkReady

SpecReady == InitReady /\ [][NextReady]_vars

\* The same for a resource created with a spec for oksana alone, with pods that
\* somebody else removes.
InitVanish ==
    Created(OneMemberSpecs,
            [edits |-> MaxEdits, failures |-> MaxFailures, ready |-> 0,
             vanish |-> MaxVanish, crashes |-> 0])

NextVanish ==
    \/ Next
    \/ Vanish

SpecVanish == InitVanish /\ [][NextVanish]_vars

\* The controller and the user of Init, for a resource created with a spec for
\* oksana alone, with a controller process that may die in the middle of a
\* pass; the manager keeps running passes: after every pass that failed and
\* after every change of the resource or of its pods.
InitFair ==
    Created(OneMemberSpecs,
            [edits |-> MaxEdits, failures |-> MaxFailures, ready |-> 0, vanish |-> 0,
             crashes |-> MaxCrashes])

NextFair ==
    \/ Next
    \/ Crash("x")

SpecFair == InitFair /\ [][NextFair]_vars /\ WF_vars(Reconcile("x"))

\* The spec that asks for RepairReplicas pods of oksana, named a-<ordinal>.
RepairSpec ==
    [EmptySpec EXCEPT ![1] = [present |-> TRUE, hasName |-> TRUE, name |-> "a",
                              hasReplicas |-> TRUE, replicas |-> RepairReplicas]]

\* A resource created with that spec, a user who edits and deletes it and pods
\* that somebody else removes; no API call is made to fail, so that a create
\* fails only when the name is taken.
InitRepair ==
    Created({RepairSpec},
            [edits |-> MaxEdits, failures |-> 0, ready |-> 0, vanish |-> RepairVanish,
             crashes |-> 0])

SpecRepair == InitRepair /\ [][NextVanish]_vars

\* The controller and the user of Init, for a resource created with a spec for
\* oksana alone, on which somebody else puts a finalizer.
InitHeld ==
    Created(OneMemberSpecs,
            [edits |-> MaxEdits, failures |-> MaxFailures, ready |-> 0, vanish |-> 0, crashes |-> 0])

NextHeld ==
    \/ Next
    \/ Hold("x")

SpecHeld == InitHeld /\ [][NextHeld]_vars

\* The spec that asks for one pod of oksana, named <base>-0.
TwoSpec(base) ==
    [EmptySpec EXCEPT ![1] = [present |-> TRUE, hasName |-> TRUE, name |-> base,
                              hasReplicas |-> FALSE, replicas |-> 0]]

\* Two resources in one namespace: x as in Init, created with the base name a,
\* and y, which the user leaves alone, created with the base name a or b; the
\* controller reconciles both, one pass at a time for each.
InitTwo ==
    /\ \E base \in BaseNames :
          squad = [s \in Squads |->
                     [exists |-> TRUE, deleting |-> FALSE, finalizer |-> FALSE,
                      held |-> FALSE,
                      spec |-> IF s = "x" THEN TwoSpec("a") ELSE TwoSpec(base),
                      status |-> EmptyStatus]]
    /\ pods = NoPods
    /\ pass = [s \in Squads |-> IdlePass]
    /\ budget = [edits |-> MaxEdits, failures |-> MaxFailures, ready |-> 0,
                 vanish |-> 0, crashes |-> 0]

NextTwo ==
    \/ Next
    \/ Reconcile("y")

SpecTwo == InitTwo /\ [][NextTwo]_vars

----------------------------------------------------------------------------
(* Properties *)

\* The pods that carry the squad label s / the squad label s and the member
\* label of member g.
Owned(s) == {n \in DOMAIN pods : pods[n].squad = s}

OwnedBy(s, g) == {n \in Owned(s) : pods[n].member = Groups[g]}

\* The calls of the pass of s that create or delete a pod.
Mutations(s) ==
    {k \in 1..Len(pass[s].calls) : pass[s].calls[k].op \in {"create", "delete"}}

\* The pass of s is over, it fetched a resource that is not being deleted, and
\* nothing but the controller has acted since it started.
EndedUndisturbed(s) ==
    /\ pass[s].pc = "idle"
    /\ pass[s].fetched
    /\ ~pass[s].obj.deleting
    /\ pass[s].clean

\* C1: after a pass that the environment did not disturb, every member with
\* a spec and a desired count R >= 0 has exactly R pods.
C1_Convergence ==
    \A s \in Squads : EndedUndisturbed(s) =>
        \A g \in GroupIds :
            LET ms == pass[s].obj.spec[g]
            IN  (~Unspecified(ms) /\ DesiredReplicas(ms) >= 0)
                    => Cardinality(OwnedBy(s, g)) = DesiredReplicas(ms)

\* C2: a pass that follows an undisturbed pass, with nothing changed in
\* between, issues no create and no delete.
C2_Idempotence ==
    \A s \in Squads : (pass[s].second /\ pass[s].clean) => Mutations(s) = {}

\* C3: the finalizer leaves the stored resource only in a step after which no
\* pod of the squad exists, and a finalizing pass in which no call fails ends
\* with every pod of the squad deleted and the finalizer cleared (the deleting
\* object removed).
C3_DeletionOrdering ==
    [][\A s \in Squads :
          /\ (squad[s].finalizer /\ ~squad'[s].finalizer) => Owned(s)' = {}
          /\ (/\ pass[s].pc # "idle"
              /\ pass'[s].pc = "idle"
              /\ pass[s].obj.deleting
              /\ pass[s].obj.finalizer
              /\ pass'[s].result = "ok")
                => /\ ~squad'[s].exists
                   /\ Owned(s)' = {}
                   /\ \A k \in 1..Len(pass'[s].calls) : pass'[s].calls[k].ok
      ]_vars

\* C3, witness: a pass has deleted three pods of two members while finalizing,
\* and the resource is gone.
C3_Witness ==
    /\ ~squad["x"].exists
    /\ pass["x"].pc = "idle"
    /\ pass["x"].result = "ok"
    /\ pass["x"].obj.deleting
    /\ pass["x"].obj.finalizer
    /\ Cardinality(Mutations("x")) = 3
    /\ \E j, k \in Mutations("x") :
          pass["x"].calls[j].member # pass["x"].calls[k].member

\* C4: a create or delete issued while member g is reconciled creates or
\* deletes only a pod that carries the label of member g.
C4_GroupIndependence ==
    [][\A s \in Squads :
          (/\ Len(pass'[s].calls) = Len(pass[s].calls) + 1
           /\ pass[s].g # 0)
            => \A n \in DOMAIN pods \cup DOMAIN pods' :
                  /\ (n \notin DOMAIN pods) => pods'[n].member = Groups[pass[s].g]
                  /\ (n \notin DOMAIN pods') => pods[n].member = Groups[pass[s].g]
      ]_vars

\* C4, witness: the pass has deleted a pod of oksana (scale-down or teardown)
\* while a pod of kurtis exists.
C4_Witness ==
    /\ \E k \in Mutations("x") :
          /\ pass["x"].calls[k].op = "delete"
          /\ pass["x"].calls[k].g = 1
          /\ pass["x"].calls[k].ok
    /\ OwnedBy("x", 2) # {}

\* C5: the stored status never has more ready pods than pods in total.
C5_ReadinessBound ==
    \A s \in Squads : squad[s].status.ready <= squad[s].status.total

\* C6: the status an undisturbed pass stores lists, for every member, the pods
\* the member has after the pass, and their total.
C6_StatusIsPostOperation ==
    \A s \in Squads :
        (EndedUndisturbed(s) /\ pass[s].wrote) =>
            /\ \A g \in GroupIds : Range(squad[s].status.pods[g]) = OwnedBy(s, g)
            /\ squad[s].status.total = Cardinality(Owned(s))

\* The pass fetched a resource that is not being deleted and has no finalizer.
SawNoMarker(s) ==
    pass[s].fetched /\ ~pass[s].obj.deleting /\ ~pass[s].obj.finalizer

\* C7, as stated: a pass that adds the finalizer lists, creates and deletes no
\* pod and writes no status.
C7_AddMarkerThenStop ==
    \A s \in Squads :
        pass[s].markerAdded => (pass[s].calls = <<>> /\ ~pass[s].wrote)

\* C7, as amended: a pass that finds no finalizer on a resource that is not
\* being deleted issues no pod call and writes no status before it has stored
\* the finalizer; if the update fails the pass ends there with an error; if it
\* succeeds the same pass goes on to reconcile the members.
C7_AddMarkerThenReconcile ==
    \A s \in Squads :
        SawNoMarker(s) =>
            /\ (pass[s].calls # <<>> \/ pass[s].wrote) => pass[s].markerAdded
            /\ (pass[s].pc = "idle" /\ ~pass[s].markerAdded)
                  => (pass[s].result = "err" /\ pass[s].errAt = "addFinalizer")
            /\ (pass[s].pc = "idle" /\ pass[s].markerAdded) => pass[s].calls # <<>>
            /\ pass[s].markerAdded => pass[s].pc \notin {"addFinalizer", "finalizeList"}

\* C7, witness: a pass has added the finalizer, created a pod and stored a status.
C7_Witness ==
    /\ SawNoMarker("x")
    /\ pass["x"].markerAdded
    /\ pass["x"].pc = "idle"
    /\ pass["x"].result = "ok"
    /\ pass["x"].wrote
    /\ \E k \in Mutations("x") : pass["x"].calls[k].op = "create" /\ pass["x"].calls[k].ok

\* C8: a pass whose resource asks for a negative replica count ends with an
\* error, creates and deletes no pod of that member and writes no status.
C8_NegativeReplicasRejected ==
    \A s \in Squads : \A g \in GroupIds :
        LET ms == pass[s].obj.spec[g]
        IN  (/\ pass[s].fetched
             /\ ~pass[s].obj.deleting
             /\ ~Unspecified(ms)
             /\ DesiredReplicas(ms) < 0)
              => /\ pass[s].pc = "idle" => pass[s].result = "err"
                 /\ ~pass[s].wrote
                 /\ \A k \in Mutations(s) : pass[s].calls[k].g # g

\* C9: a list, create or delete that fails while a member is reconciled is the
\* last call of the pass: the pass is over with an error, no call was issued
\* for a later member or for the status, and the stored status is the one the
\* pass found.
C9_FirstErrorAborts ==
    \A s \in Squads : \A k \in 1..Len(pass[s].calls) :
        LET c == pass[s].calls[k]
        IN  (~c.ok /\ c.g # 0) =>
              /\ k = Len(pass[s].calls)
              /\ pass[s].pc = "idle"
              /\ pass[s].result = "err"
              /\ pass[s].g = c.g
              /\ \A j \in 1..Len(pass[s].calls) :
                    pass[s].calls[j].g # 0 /\ pass[s].calls[j].g <= c.g
              /\ ~pass[s].wrote
              /\ squad[s].exists => squad[s].status = pass[s].status0

\* C9, witness: a create or delete for oksana has failed after another
\* succeeded, kurtis has a spec, and the stored status still counts the pods
\* the pass before found.
C9_Witness ==
    LET p == pass["x"]
    IN  /\ p.pc = "idle"
        /\ p.result = "err"
        /\ p.errAt = "member"
        /\ p.g = 1
        /\ ~Unspecified(p.obj.spec[2])
        /\ \E k \in Mutations("x") : p.calls[k].ok
        /\ squad["x"].exists
        /\ squad["x"].status.total > 0
        /\ squad["x"].status = p.status0

\* C10: when the list of countReadyPods fails, the pass ends with an error and
\* stores no status.
C10_ReadinessErrorAborts ==
    \A s \in Squads :
        pass[s].readyErr =>
            /\ ~pass[s].wrote
            /\ pass[s].pc = "idle" => pass[s].result = "err"

\* The step is an API call on a pod (or a list of pods) by the pass of s: the
\* pass logs one more call.
CallStep(s) == Len(pass'[s].calls) = Len(pass[s].calls) + 1

\* The pass of s is about to delete a listed pod that no longer exists.
DeletesVanished(s) ==
    /\ pass[s].pc \in {"delete", "teardown", "finalizeDelete"}
    /\ pass[s].items[pass[s].i + 1] \notin DOMAIN pods

\* C11: a delete of a pod that vanished after the list (NotFound, no injected
\* failure) does not end the pass with an error.
C11_NotFoundIsSuccess ==
    [][\A s \in Squads :
          (DeletesVanished(s) /\ CallStep(s) /\ budget' = budget)
            => ~(pass'[s].pc = "idle" /\ pass'[s].result = "err")
      ]_vars

\* The pass of s fetched a resource that is not being deleted, and is over
\* without an error.
EndedOk(s) ==
    /\ pass[s].pc = "idle"
    /\ pass[s].fetched
    /\ ~pass[s].obj.deleting
    /\ pass[s].result = "ok"

\* The successful delete calls of the pass of s for member g.
Deleted(s, g) ==
    {k \in Mutations(s) : /\ pass[s].calls[k].op = "delete"
                          /\ pass[s].calls[k].g = g
                          /\ pass[s].calls[k].ok}

\* C12: after a pass without error, a member whose spec is nil (or has no
\* name) has no pod left, and the stored status lists no pod for it.
C12_AbsentGroupTornDown ==
    \A s \in Squads : EndedOk(s) =>
        \A g \in GroupIds :
            Unspecified(pass[s].obj.spec[g])
                => /\ OwnedBy(s, g) = {}
                   /\ squad[s].exists
                   /\ squad[s].status.pods[g] = <<>>

\* C12, witness: a pass found two pods of oksana, listed in the stored status,
\* and her spec nil; it deleted both and stored an empty list for her.
C12_Witness ==
    /\ EndedOk("x")
    /\ ~pass["x"].obj.spec[1].present
    /\ Len(pass["x"].status0.pods[1]) = 2
    /\ Cardinality(Deleted("x", 1)) = 2
    /\ squad["x"].status.pods[1] = <<>>

\* C13: a pass that fetched a resource being deleted is only ever fetching,
\* finalizing or over; it creates no pod, issues no call for a member, adds no
\* finalizer and stores no status; when a call of the finalization fails the
\* pass is over with an error and the stored resource keeps the finalizer;
\* when the resource had no finalizer the pass is over after the fetch.
C13_DeletingNeverReconciled ==
    \A s \in Squads :
        (pass[s].fetched /\ pass[s].obj.deleting) =>
            /\ pass[s].pc \in {"idle", "finalizeList", "finalizeDelete", "removeFinalizer"}
            /\ ~pass[s].wrote
            /\ ~pass[s].markerAdded
            /\ squad[s].exists => squad[s].status = pass[s].status0
            /\ \A k \in 1..Len(pass[s].calls) :
                  /\ pass[s].calls[k].op # "create"
                  /\ pass[s].calls[k].g = 0
                  /\ ~pass[s].calls[k].ok =>
                        /\ pass[s].pc = "idle"
                        /\ pass[s].result = "err"
                        /\ squad[s].exists
                        /\ squad[s].finalizer
            /\ ~pass[s].obj.finalizer =>
                  /\ pass[s].pc = "idle"
                  /\ pass[s].result = "ok"
                  /\ pass[s].calls = <<>>

\* C13, witness: a pass fetched a resource that is being deleted, has no
\* finalizer and has a spec for oksana, who has no pod.
C13_Witness ==
    /\ pass["x"].fetched
    /\ pass["x"].obj.deleting
    /\ ~pass["x"].obj.finalizer
    /\ ~Unspecified(pass["x"].obj.spec[1])
    /\ DesiredReplicas(pass["x"].obj.spec[1]) > 0
    /\ OwnedBy("x", 1) = {}

\* C13, second case: the finalization of a resource failed at its second
\* delete, and the stored resource keeps the finalizer.
C13_WitnessFailed ==
    /\ pass["x"].fetched
    /\ pass["x"].obj.deleting
    /\ pass["x"].pc = "idle"
    /\ pass["x"].result = "err"
    /\ Len(pass["x"].calls) = 3
    /\ squad["x"].finalizer

\* The calls of kind op that the pass of s issued for member g, in order.
CallsOf(s, g, op) == SelectSeq(pass[s].calls, LAMBDA c : c.op = op /\ c.g = g)

\* The pass of s listed the pods of member g.
Listed(s, g) ==
    \E k \in 1..Len(pass[s].calls) :
        LET c == pass[s].calls[k] IN c.op = "list" /\ c.g = g /\ c.ok

\* currentReplicas of the reconciliation of member g in the pass of s, once
\* that reconciliation is over: the length of the list, which the pass still
\* holds when it ended within g and which is the member's status otherwise.
Current(s, g) ==
    IF pass[s].g = g THEN Len(pass[s].items) ELSE Len(pass[s].status.pods[g])

\* The names <baseName>-<from> .. <baseName>-<to - 1>, in that order.
Ordinals(base, from, to) == [k \in 1..(to - from) |-> PodName(base, from + k - 1)]

\* The names of the calls cs, in order.
NamesOf(cs) == [k \in 1..Len(cs) |-> cs[k].name]

\* C14: a pass that the environment did not disturb has, for every member it
\* found with fewer pods than desired, issued exactly the creates of the
\* ordinals current .. desired - 1, in that order and with the labels of the
\* member, and no delete.
C14_ScaleUp ==
    \A s \in Squads : EndedUndisturbed(s) =>
        \A g \in GroupIds :
            LET ms == pass[s].obj.spec[g]
            IN  (/\ Listed(s, g)
                 /\ ~Unspecified(ms)
                 /\ Current(s, g) < DesiredReplicas(ms))
                  => /\ NamesOf(CallsOf(s, g, "create"))
                          = Ordinals(ms.name, Current(s, g), DesiredReplicas(ms))
                     /\ \A k \in 1..Len(CallsOf(s, g, "create")) :
                           CallsOf(s, g, "create")[k].member = Groups[g]
                     /\ CallsOf(s, g, "delete") = <<>>

\* C14 holds of the passes in which no create fails: the labels of the pods
\* created are those of the member and of the resource.
C14_ScaleUpOfPassesOk ==
    \A s \in Squads : EndedOk(s) =>
        \A g \in GroupIds :
            LET ms == pass[s].obj.spec[g]
            IN  (~Unspecified(ms) /\ Current(s, g) < DesiredReplicas(ms))
                  => /\ NamesOf(CallsOf(s, g, "create"))
                          = Ordinals(ms.name, Current(s, g), DesiredReplicas(ms))
                     /\ \A k \in 1..Len(CallsOf(s, g, "create")) :
                           LET c == CallsOf(s, g, "create")[k]
                           IN  /\ c.ok
                               /\ c.name \in OwnedBy(s, g)
                     /\ CallsOf(s, g, "delete") = <<>>

\* existingPods.Items of the reconciliation of member g in the pass of s: the
\* list the pass holds while it is within g, and the member's status afterwards.
ItemsOf(s, g) == IF pass[s].g = g THEN pass[s].items ELSE pass[s].status.pods[g]

\* q is a prefix of r.
IsPrefix(q, r) == Len(q) <= Len(r) /\ q = SubSeq(r, 1, Len(q))

\* C15: for a member with a desired count >= 0 that the pass listed, with
\* current pods: the pass issues no create when current >= desired; its
\* deletes are, in order, deletes of the first listed pods, never more than
\* current - desired (none when current = desired); and once the member's
\* reconciliation is over without a failed call they are exactly the first
\* current - desired listed pods.
C15_ScaleDown ==
    \A s \in Squads : \A g \in GroupIds :
        LET ms      == pass[s].obj.spec[g]
            desired == DesiredReplicas(ms)
            items   == ItemsOf(s, g)
            current == Len(items)
            doomed  == SubSeq(items, 1, current - desired)
            deletes == NamesOf(CallsOf(s, g, "delete"))
        IN  (/\ pass[s].fetched
             /\ ~pass[s].obj.deleting
             /\ Listed(s, g)
             /\ ~Unspecified(ms)
             /\ desired >= 0
             /\ current >= desired)
              => /\ CallsOf(s, g, "create") = <<>>
                 /\ IsPrefix(deletes, doomed)
                 /\ pass[s].g # g => deletes = doomed

\* C15, witness: oksana had two pods and a desired count of 1; the pass has
\* deleted the pod listed first, the one of ordinal 0, and gone on.
C15_Witness ==
    /\ pass["x"].fetched
    /\ ~pass["x"].obj.deleting
    /\ pass["x"].g # 1
    /\ Listed("x", 1)
    /\ ~Unspecified(pass["x"].obj.spec[1])
    /\ DesiredReplicas(pass["x"].obj.spec[1]) = 1
    /\ Len(pass["x"].status.pods[1]) = 2
    /\ NamesOf(CallsOf("x", 1, "delete")) = <<pass["x"].status.pods[1][1]>>
    /\ pass["x"].status.pods[1][1][2] = 0
    /\ Cardinality(OwnedBy("x", 1)) = 1

\* The pass of s is over: it ended on a failed create for member g that
\* followed a successful create for g.
EndedOnPartialScaleUp(s, g) ==
    /\ pass[s].pc = "idle"
    /\ PartialScaleUp([pass[s] EXCEPT !.touched = FALSE]).g = g

\* The ordinals of member g that are missing when the pass of s lists its
\* pods: the names <baseName>-0 .. <baseName>-<desired - 1> that no listed
\* pod has.
Missing(s, g) ==
    LET ms == pass[s].obj.spec[g]
    IN  Range(Ordinals(ms.name, 0, DesiredReplicas(ms))) \ Range(ItemsOf(s, g))

\* C16: a pass that ended on a failed create after a successful create for
\* the same member ended with an error and stored no status, the stored status
\* is the one it found, and the pods it created exist as long as nobody else
\* acts; the pass that follows, as long as nobody else acts, issues creates
\* for that member only for ordinals that were missing when it listed.
C16_PartialFailureRepaired ==
    \A s \in Squads : \A g \in GroupIds :
        /\ EndedOnPartialScaleUp(s, g) =>
              /\ pass[s].result = "err"
              /\ ~pass[s].wrote
              /\ squad[s].exists => squad[s].status = pass[s].status0
              /\ ~pass[s].touched =>
                    \A k \in 1..Len(CallsOf(s, g, "create")) :
                        LET c == CallsOf(s, g, "create")[k]
                        IN  c.ok => c.name \in OwnedBy(s, g)
        /\ (pass[s].retry.g = g /\ ~pass[s].touched /\ Listed(s, g)) =>
              \A k \in 1..Len(CallsOf(s, g, "create")) :
                  CallsOf(s, g, "create")[k].name \in Missing(s, g)

\* The resource s is stored and not being deleted, every member has exactly
\* its desired number of pods (none for a member without spec), and the stored
\* status lists exactly the pods that exist.
Converged(s) ==
    \A g \in GroupIds :
        LET ms == squad[s].spec[g]
        IN  /\ Cardinality(OwnedBy(s, g)) = (IF Unspecified(ms) THEN 0 ELSE DesiredReplicas(ms))
            /\ Range(squad[s].status.pods[g]) = OwnedBy(s, g)
            /\ Len(squad[s].status.pods[g]) = Cardinality(OwnedBy(s, g))

\* The stored spec of s asks no member for a negative count.
NoNegative(s) ==
    \A g \in GroupIds :
        Unspecified(squad[s].spec[g]) \/ DesiredReplicas(squad[s].spec[g]) >= 0

\* C17: with passes that keep running, once the failures, the crashes and the
\* edits have stopped, a resource that is not deleted and asks for no negative
\* count is converged from some point on, for ever.
C17_EventualConvergence ==
    <>[]((squad["x"].exists /\ ~squad["x"].deleting /\ NoNegative("x")) => Converged("x"))

\* The pass of s ended on a create that failed though nothing was made to fail
\* and nobody else acted.
EndedOnAlreadyExists(s) ==
    /\ pass[s].pc = "idle"
    /\ pass[s].result = "err"
    /\ pass[s].errAt = "member"
    /\ pass[s].clean
    /\ Len(pass[s].calls) > 0
    /\ pass[s].calls[Len(pass[s].calls)].op = "create"

\* C17 fails only where passes keep ending on AlreadyExists.
C17_ConvergenceOrAlreadyExists ==
    \/ C17_EventualConvergence
    \/ []<>EndedOnAlreadyExists("x")

\* The pass of s is at an update of the resource (r.Update of the finalizer or
\* r.Status().Update) that the API server will answer with Conflict.
AtConflict(s) ==
    /\ pass[s].pc \in {"addFinalizer", "removeFinalizer", "updateStatus"}
    /\ pass[s].stale
    /\ squad[s].exists

\* C18: the step of a pass at an update that meets a Conflict ends the pass
\* with the error of that update and leaves the stored resource and the pods
\* as they are; the pass has stored no status, and one that met the Conflict
\* when adding the finalizer has issued no call on pods.  The next step of the
\* controller for that resource is the fetch of a new pass.
C18_ConflictNeverOverwritten ==
    [][\A s \in Squads :
          (AtConflict(s) /\ pass'[s].pc # pass[s].pc)
            => /\ pass'[s].pc = "idle"
               /\ pass'[s].result = "err"
               /\ pass'[s].errAt = pass[s].pc
               /\ squad' = squad
               /\ pods' = pods
               /\ ~pass'[s].wrote
               /\ pass[s].pc = "addFinalizer"
                     => (pass'[s].calls = <<>> /\ ~pass'[s].markerAdded)
      ]_vars

\* C18, witness: the user edited the spec while the pass was about to add the
\* finalizer; with no call made to fail, the pass is over with the error of
\* that update, and the stored resource has the user's spec and no finalizer.
C18_Witness ==
    /\ pass["x"].pc = "idle"
    /\ pass["x"].result = "err"
    /\ pass["x"].errAt = "addFinalizer"
    /\ pass["x"].stale
    /\ budget.failures = MaxFailures
    /\ squad["x"].exists
    /\ squad["x"].spec # pass["x"].obj.spec
    /\ ~squad["x"].finalizer
    /\ pods = NoPods

\* C18, second case: the same at the update of the status, after the pass
\* created a pod.
C18_WitnessStatus ==
    /\ pass["x"].pc = "idle"
    /\ pass["x"].result = "err"
    /\ pass["x"].errAt = "updateStatus"
    /\ pass["x"].stale
    /\ budget.failures = MaxFailures
    /\ squad["x"].exists
    /\ squad["x"].spec # pass["x"].obj.spec
    /\ squad["x"].status = pass["x"].status0
    /\ squad["x"].status # pass["x"].status

\* The pod the pass of s is about to create.
NextCreate(s) == PodName(pass[s].obj.spec[pass[s].g].name, pass[s].i)

\* C19: a call of the pass of s on a pod deletes no pod of another resource;
\* a create, when no call is made to fail, succeeds unless s itself has a pod
\* of that name, whatever the pods of other resources; and a status that s
\* stores names no pod of another resource.
C19_ResourcesIndependent ==
    [][\A s \in Squads :
          /\ CallStep(s) =>
                /\ \A n \in DOMAIN pods \ DOMAIN pods' : pods[n].squad = s
                /\ (/\ pass[s].pc = "create"
                    /\ budget' = budget
                    /\ NextCreate(s) \notin Owned(s))
                      => NextCreate(s) \in Owned(s)'
          /\ (pass[s].pc = "updateStatus" /\ pass'[s].wrote) =>
                \A g \in GroupIds : \A n \in Range(squad'[s].status.pods[g]) :
                    n \in DOMAIN pods => pods[n].squad = s
      ]_vars

\* The finalizer was stored on the resource the pass of s holds: the pass
\* fetched it with the finalizer, or has added it.
MarkerStored(s) == pass[s].obj.finalizer \/ pass[s].markerAdded

\* C20: a pass issues a create only with the finalizer stored on the resource
\* it holds, and whenever a pod with the label of resource s exists, s is
\* stored and carries the finalizer.
C20_MarkerBeforeWorkers ==
    \A s \in Squads :
        /\ pass[s].pc = "create" => MarkerStored(s)
        /\ (\E k \in Mutations(s) : pass[s].calls[k].op = "create") => MarkerStored(s)
        /\ Owned(s) # {} => (squad[s].exists /\ squad[s].finalizer)

\* C20, witness: the pass added the finalizer and created a pod, the user has
\* deleted the resource since, and the resource is stored, with the finalizer,
\* as long as the pod exists.
C20_Witness ==
    /\ pass["x"].markerAdded
    /\ ~pass["x"].obj.finalizer
    /\ \E k \in Mutations("x") : pass["x"].calls[k].op = "create" /\ pass["x"].calls[k].ok
    /\ Owned("x") # {}
    /\ squad["x"].deleting
    /\ squad["x"].finalizer

====
